---- MODULE Spec2Model ----
(***************************************************************************)
(* A model of the Map Browser (src/scripts/main.js): the MapBrowserApp     *)
(* window (manifest load, search / animated / expansion view state, the    *)
(* debounced search input, the scene-creation handlers) and the public     *)
(* MapBrowser.createSceneFromLocation entry point.                         *)
(*                                                                         *)
(* Strings that the code inspects character by character (titles, folder   *)
(* names, tags, display names, searchable text, queries, file names) are   *)
(* sequences of one-character strings; an optional JavaScript value is a   *)
(* sequence of length 0 (null / undefined / absent) or 1 (present).        *)
(***************************************************************************)
EXTENDS Integers, Sequences, FiniteSets, TLC

VARIABLES
  manifest,          \* #manifest: Null or Some(manifest record)
  variantMapping,    \* #variantMapping: Null or Some(function key -> variant id)
  searchQuery,       \* #searchQuery
  expandedLocation,  \* #expandedLocation: NoId or a location id
  loading,           \* #loading
  showAnimatedOnly,  \* #showAnimatedOnly
  pc,                \* position of the first render / #loadManifest
  context,           \* the context of the latest render: Null or Some(context)
  searchTimeouts,    \* pending debounce timers, oldest first
  curTimeout,        \* TRUE iff the newest pending timer is the one held by the
                     \* searchTimeout variable of the latest _onRender closure
  task,              \* the latest scene-creation call: its position and the
                     \* external calls it has made, in order
  tasksStarted,      \* number of scene-creation calls started so far
  log,               \* external calls of the window's own load, in order
  loadResult,        \* how the fetches of #loadManifest ended, and the
                     \* document the manifest response parsed to (history)
  lastEvent          \* the handler that ran last (history)

vars == <<manifest, variantMapping, searchQuery, expandedLocation, loading,
          showAnimatedOnly, pc, context, searchTimeouts, curTimeout, task,
          tasksStarted, log, loadResult, lastEvent>>

(***************************************************************************)
(* Bounds of the model.                                                    *)
(***************************************************************************)
MaxQueryLen == 2     \* longest query of the exhaustive part of the filter specification
MaxLocs == 3         \* most locations in a catalog of the filter specification
MaxTimers == 2       \* most debounce timers pending at once
MaxTasks == 1        \* most scene-creation calls started in one behaviour

(***************************************************************************)
(* Optional values and strings.                                            *)
(***************************************************************************)
Null == <<>>
Some(x) == <<x>>
Get(o) == o[1]

NoId == "null"

Chars == {"a", "b", "A", " "}

Str(n) == UNION {[1..k -> Chars] : k \in 0..n}

LowerChar(c) == CASE c = "A" -> "a" [] c = "B" -> "b" [] OTHER -> c

\* String.prototype.toLowerCase
toLowerCase(s) == [i \in 1..Len(s) |-> LowerChar(s[i])]

\* String.prototype.includes
includes(s, q) == \E i \in 0..(Len(s) - Len(q)) : SubSeq(s, i + 1, i + Len(q)) = q

IsWhitespace(c) == c = " "

\* Array.prototype.some
some(seq, P(_)) == \E i \in 1..Len(seq) : P(seq[i])

\* The index of the first non-whitespace character of s at or after i
\* (Len(s) + 1 when there is none): what one match of /\s+/ consumes.
RECURSIVE SkipWhitespace(_, _)
SkipWhitespace(s, i) ==
  IF i <= Len(s) /\ IsWhitespace(s[i]) THEN SkipWhitespace(s, i + 1) ELSE i

\* String.prototype.split(/\s+/): the pieces between the whitespace runs,
\* the empty pieces at either end included.
RECURSIVE SplitFrom(_, _, _, _)
SplitFrom(s, i, cur, acc) ==
  IF i > Len(s) THEN Append(acc, cur)
  ELSE IF IsWhitespace(s[i])
       THEN SplitFrom(s, SkipWhitespace(s, i), <<>>, Append(acc, cur))
       ELSE SplitFrom(s, i + 1, Append(cur, s[i]), acc)

split(s) == SplitFrom(s, 1, <<>>, <<>>)

\* A query taken as one term, whitespace included (what the filter would
\* see if the query were not split).
QueryTermsUnsplit(query) == <<query>>

\* query.split(/\s+/).filter(t => t.length > 0)
QueryTerms(query) == SelectSeq(split(query), LAMBDA t : Len(t) > 0)

(***************************************************************************)
(* The catalog: files, flavors, locations, manifests (the JSON documents   *)
(* the module ships; their shape is the one the code reads).               *)
(***************************************************************************)
File(filename, animated, sub_variant) ==
  [filename |-> filename, animated |-> animated, sub_variant |-> sub_variant]

\* A flavor of the default convention: one "files" list.
Flavor(name, display_name, files, smart_tags) ==
  [name |-> name, display_name |-> display_name, files |-> Some(files),
   scenery_files |-> Null, battlemap_files |-> Null, smart_tags |-> smart_tags]

\* A flavor of the alternate convention: scenery_files and/or battlemap_files.
BeneosFlavor(name, display_name, scenery, battlemap, smart_tags) ==
  [name |-> name, display_name |-> display_name, files |-> Null,
   scenery_files |-> scenery, battlemap_files |-> battlemap,
   smart_tags |-> smart_tags]

Location(id, title, folder_name, has_animated, flavors, smart_tags, searchable_text) ==
  [id |-> id, title |-> title, folder_name |-> folder_name,
   has_animated |-> has_animated, files_in_root |-> FALSE, beneos_path |-> Null,
   flavors |-> flavors, smart_tags |-> smart_tags,
   searchable_text |-> searchable_text, thumbnail |-> TRUE]

Manifest(locations, worker_base_url, onedrive_api_base) ==
  [locations |-> locations, total_locations |-> Len(locations),
   total_flavors |-> Len(locations), total_files |-> Len(locations),
   worker_base_url |-> worker_base_url, onedrive_api_base |-> onedrive_api_base]

\* { locations: [], total_locations: 0, total_flavors: 0, total_files: 0 }
EmptyManifest ==
  [locations |-> <<>>, total_locations |-> 0, total_flavors |-> 0,
   total_files |-> 0, worker_base_url |-> Null, onedrive_api_base |-> Null]

OriginalName == <<"O", "r", "i", "g", "i", "n", "a", "l">>
NightName == <<"N", "i", "g", "h", "t">>
DayName == <<"D", "a", "y">>

WorkerBase == <<"w">>
LegacyBase == <<"o">>

StillFile == File(<<"a", " ", "b">>, FALSE, Null)
VideoFile == File(<<"b">>, TRUE, Some(<<"A">>))
GridFile == File(<<"A">>, FALSE, Null)

\* Locations of the filter specification: each matches a query by a
\* different field (title, folder name, tag, flavor display name, flavor
\* tag, searchable text), "pn" by none.
PoolLocations ==
  { Location("pt", <<"A", " ", "b">>, <<"b", "b">>, TRUE,
             <<Flavor(OriginalName, <<"b">>, <<StillFile, VideoFile>>, <<>>)>>,
             <<>>, Null),
    Location("pf", <<"b">>, <<"a", "A">>, FALSE,
             <<Flavor(OriginalName, <<"b">>, <<StillFile>>, <<>>)>>,
             <<>>, Null),
    Location("pg", <<"b">>, <<"b">>, TRUE,
             <<Flavor(NightName, <<"b">>, <<VideoFile>>, <<>>)>>,
             <<<<"b", "b">>, <<"a", "b">>>>, Null),
    Location("pd", <<"b">>, <<"b">>, FALSE,
             <<Flavor(OriginalName, <<"b">>, <<StillFile>>, <<>>),
               Flavor(NightName, <<"A", "a">>, <<StillFile>>, <<>>)>>,
             <<>>, Some(<<>>)),
    Location("ps", <<"b">>, <<"b">>, TRUE,
             <<BeneosFlavor(DayName, <<"b">>, Some(<<VideoFile>>), Null, <<<<"a">>>>)>>,
             <<>>, Null),
    Location("px", <<"b">>, <<"b">>, FALSE,
             <<Flavor(OriginalName, <<"b">>, <<StillFile>>, <<>>)>>,
             <<>>, Some(<<"b", " ", "A", " ", "b">>)),
    Location("pn", <<"b">>, <<"b">>, FALSE,
             <<Flavor(OriginalName, <<"b">>, <<StillFile>>, <<>>)>>,
             <<<<"b">>>>, Null) }

\* The sequences of at most n locations of S with pairwise different ids.
RECURSIVE DistinctSeqs(_, _)
DistinctSeqs(S, n) ==
  IF n = 0 THEN {<<>>}
  ELSE LET shorter == DistinctSeqs(S, n - 1)
       IN  shorter \cup
           {Append(q, l) : <<q, l>> \in
              {<<q, l>> \in shorter \X S :
                 /\ Len(q) = n - 1
                 /\ \A i \in 1..Len(q) : q[i].id # l.id}}

\* The queries of the filter specification: every string up to MaxQueryLen
\* characters, and queries of two terms.
TwoTermQueries ==
  {<<"a", " ", "b">>, <<"b", " ", "a">>, <<"A", " ", "b">>, <<"b", " ", " ", "a">>}
FilterQueries == Str(MaxQueryLen) \cup TwoTermQueries

FilterManifests ==
  {Manifest(locs, Some(WorkerBase), Null) : locs \in DistinctSeqs(PoolLocations, MaxLocs)}

(***************************************************************************)
(* _prepareContext: the query filter.                                      *)
(***************************************************************************)
\* A toggle that restricts nothing.
AnimatedOnlyIgnored(locations, animatedOnly) == locations

\* locations.filter(loc => loc.has_animated) when the toggle is on
AnimatedOnly(locations, animatedOnly) ==
  IF animatedOnly THEN SelectSeq(locations, LAMBDA loc : loc.has_animated)
  ELSE locations

\* loc.title.toLowerCase().includes(query) || loc.folder_name.toLowerCase().includes(query)
LocationMatch(loc, query) ==
  \/ includes(toLowerCase(loc.title), query)
  \/ includes(toLowerCase(loc.folder_name), query)

\* tags.some(tag => queryTerms.some(term => tag.includes(term)))
TagMatch(tags, queryTerms) ==
  some(tags, LAMBDA tag : some(queryTerms, LAMBDA term : includes(tag, term)))

\* loc.flavors.some(f => f.display_name.toLowerCase().includes(query) || <tag match>)
FlavorMatch(loc, query, queryTerms) ==
  some(loc.flavors, LAMBDA f :
         \/ includes(toLowerCase(f.display_name), query)
         \/ TagMatch(f.smart_tags, queryTerms))

\* loc.searchable_text?.toLowerCase().includes(query): undefined (falsy) when absent
SearchableTextMatch(loc, query) ==
  /\ loc.searchable_text # Null
  /\ includes(toLowerCase(Get(loc.searchable_text)), query)

\* The callback of locations.filter: the first check that matches decides.
MatchesQuery(loc, query, queryTerms) ==
  IF LocationMatch(loc, query) THEN TRUE
  ELSE IF TagMatch(loc.smart_tags, queryTerms) THEN TRUE
  ELSE IF FlavorMatch(loc, query, queryTerms) THEN TRUE
  ELSE SearchableTextMatch(loc, query)

\* A filter that ranks by match quality: the locations matching by name
\* first, the other matches after them.
SearchFilterRanked(locations, query0) ==
  IF query0 # <<>>
  THEN LET query == toLowerCase(query0)
           queryTerms == QueryTerms(query)
       IN  SelectSeq(locations, LAMBDA loc : LocationMatch(loc, query))
           \o SelectSeq(locations, LAMBDA loc :
                  ~LocationMatch(loc, query) /\ MatchesQuery(loc, query, queryTerms))
  ELSE locations

\* A filter that matches the query as typed, without lowercasing it.
SearchFilterAsTyped(locations, query0) ==
  IF query0 # <<>>
  THEN LET queryTerms == QueryTerms(query0)
       IN  SelectSeq(locations, LAMBDA loc : MatchesQuery(loc, query0, queryTerms))
  ELSE locations

\* if (this.#searchQuery) { ... locations = locations.filter(...) }
SearchFilter(locations, query0) ==
  IF query0 # <<>>
  THEN LET query == toLowerCase(query0)
           queryTerms == QueryTerms(query)
       IN  SelectSeq(locations, LAMBDA loc : MatchesQuery(loc, query, queryTerms))
  ELSE locations

\* this.#manifest?.locations || []
ManifestLocations(m) == IF m = Null THEN <<>> ELSE Get(m).locations

FilteredLocations(m, animatedOnly, query0) ==
  SearchFilter(AnimatedOnly(ManifestLocations(m), animatedOnly), query0)

(***************************************************************************)
(* _prepareContext: the per-render view of the filtered locations.         *)
(***************************************************************************)
ThumbsDir == "modules/map-browser/data/thumbs/"
VariantThumbsDir == "modules/map-browser/data/variant-thumbs/"
Placeholder == "icons/svg/mystery-man.svg"

\* #getThumbnailUrl
getThumbnailUrl(location) ==
  IF location.thumbnail THEN <<ThumbsDir, location.folder_name, ".jpg">>
  ELSE <<Placeholder>>

\* The key `${locationId}|${flavorName}|${filename}` of the variant mapping.
VariantKey(locationId, flavorName, filename) == <<locationId, flavorName, filename>>

\* #getVariantThumbUrl: null without a mapping or for an unmapped key
getVariantThumbUrl(mapping, locationId, flavorName, filename) ==
  IF mapping = Null THEN Null
  ELSE LET key == VariantKey(locationId, flavorName, filename)
       IN  IF key \in DOMAIN Get(mapping) /\ Get(mapping)[key] # ""
           THEN Some(VariantThumbsDir \o Get(mapping)[key] \o ".webp")
           ELSE Null

\* list?.map(file => ({...file, variantThumb: ...}))
WithVariantThumbs(mapping, loc, flavor, list) ==
  IF list = Null THEN Null
  ELSE Some([i \in 1..Len(Get(list)) |->
               [variantThumb |->
                  getVariantThumbUrl(mapping, loc.id, flavor.name, Get(list)[i].filename)]
               @@ Get(list)[i]])

\* Flavors augmented for every displayed location once a mapping is held.
DisplayFlavorsAll(mapping, loc, isExpanded) ==
  IF mapping # Null
  THEN [k \in 1..Len(loc.flavors) |->
          LET flavor == loc.flavors[k]
          IN  [flavor EXCEPT
                 !.files = WithVariantThumbs(mapping, loc, flavor, flavor.files),
                 !.scenery_files =
                    WithVariantThumbs(mapping, loc, flavor, flavor.scenery_files),
                 !.battlemap_files =
                    WithVariantThumbs(mapping, loc, flavor, flavor.battlemap_files)]]
  ELSE loc.flavors

\* The flavors of a displayed location: augmented only when it is the
\* expanded one and a variant mapping is held.
DisplayFlavors(mapping, loc, isExpanded) ==
  IF isExpanded /\ mapping # Null
  THEN [k \in 1..Len(loc.flavors) |->
          LET flavor == loc.flavors[k]
          IN  [flavor EXCEPT
                 !.files = WithVariantThumbs(mapping, loc, flavor, flavor.files),
                 !.scenery_files =
                    WithVariantThumbs(mapping, loc, flavor, flavor.scenery_files),
                 !.battlemap_files =
                    WithVariantThumbs(mapping, loc, flavor, flavor.battlemap_files)]]
  ELSE loc.flavors

\* Every card expanded while some location is.
IsExpandedAny(loc, expanded) == expanded # NoId

\* loc.id === this.#expandedLocation
IsExpanded(loc, expanded) == loc.id = expanded

\* smart_tags.slice(0, 4)
TagBadgeLimit == 4
TagBadges(tags) == SubSeq(tags, 1, IF Len(tags) < TagBadgeLimit THEN Len(tags) ELSE TagBadgeLimit)

\* The callback of locations.map: a fresh object {...loc, flavors, expanded,
\* thumbnail, tagBadges}.
DisplayLocation(mapping, loc, expanded) ==
  [flavors |-> DisplayFlavors(mapping, loc, IsExpanded(loc, expanded)),
   expanded |-> IsExpanded(loc, expanded),
   thumbnail |-> getThumbnailUrl(loc),
   tagBadges |-> TagBadges(loc.smart_tags)] @@ loc

DisplayLocations(mapping, locations, expanded) ==
  [i \in 1..Len(locations) |-> DisplayLocation(mapping, locations[i], expanded)]

\* The manifest held after _prepareContext has run on manifest m: the map
\* callback spreads each location, flavor and file into a new object and
\* assigns nothing to the catalog's own objects.
HeldAfterRenderInPlace(m, mapping, query0, expanded, animatedOnly) ==
  IF m = Null THEN m
  ELSE Some([Get(m) EXCEPT !.locations =
               [i \in 1..Len(Get(m).locations) |->
                  DisplayLocation(mapping, Get(m).locations[i], expanded)]])
HeldAfterRender(m, mapping, query0, expanded, animatedOnly) == m

\* The context _prepareContext returns, the manifest being held.
PrepareContext(m, mapping, query0, expanded, animatedOnly, isLoading) ==
  LET displayLocations ==
        DisplayLocations(mapping, FilteredLocations(m, animatedOnly, query0), expanded)
  IN  [locations |-> displayLocations,
       totalLocations |-> IF m = Null THEN 0 ELSE Get(m).total_locations,
       totalFlavors |-> IF m = Null THEN 0 ELSE Get(m).total_flavors,
       totalFiles |-> IF m = Null THEN 0 ELSE Get(m).total_files,
       searchQuery |-> query0,
       loading |-> isLoading,
       hasOneDriveUrl |->
          m # Null /\ (Get(m).worker_base_url # Null \/ Get(m).onedrive_api_base # Null),
       resultCount |-> Len(displayLocations),
       showAnimatedOnly |-> animatedOnly,
       animatedCount |->
          Len(SelectSeq(ManifestLocations(m), LAMBDA l : l.has_animated))]

(***************************************************************************)
(* The documents the fetches can deliver, and the values a user types.     *)
(***************************************************************************)
AppLocations ==
  << Location("pt", <<"A", " ", "b">>, <<"b", " ", "b">>, TRUE,
              <<Flavor(OriginalName, <<"b">>, <<StillFile, VideoFile>>, <<>>)>>,
              <<>>, Null),
     [Location("ps", <<"b">>, <<"b">>, TRUE,
               <<BeneosFlavor(DayName, <<"b">>, Some(<<StillFile, VideoFile>>), Null,
                              <<<<"a">>>>),
                 BeneosFlavor(NightName, <<"A">>, Some(<<>>), Some(<<GridFile, StillFile>>),
                              <<>>)>>,
               <<>>, Null) EXCEPT !.beneos_path = Some(<<"B">>)],
     [Location("pn", <<"b">>, <<"b">>, FALSE,
               <<Flavor(NightName, <<"b">>, <<StillFile>>, <<>>)>>,
               <<<<"b">>>>, Null) EXCEPT !.files_in_root = TRUE] >>

Manifests ==
  {Manifest(AppLocations, w, o) :
     w \in {Null, Some(WorkerBase)}, o \in {Null, Some(LegacyBase)}}

\* _mapping.json: entries for some of the files, none for the others
VariantMappings ==
  { (VariantKey("pt", OriginalName, StillFile.filename) :> "v1")
      @@ (VariantKey("ps", DayName, VideoFile.filename) :> "v2") }

InputValues == {<<>>, <<" ">>, <<"a">>}

LoadErrorText == "Failed to load map manifest. Check console for details."

\* An external call: by = 0 for the window's own load, n for the n-th
\* scene-creation call.
Call(by, op, args) == [by |-> by, op |-> op, args |-> args]
Notify(by, level, text) == Call(by, "notify", <<level, text>>)

(***************************************************************************)
(* render(): _prepareContext builds the context and _onRender binds the    *)
(* handlers to the new elements with a fresh searchTimeout variable, so    *)
(* the timers pending at that moment are no longer held by any closure     *)
(* an input event can reach.                                               *)
(***************************************************************************)
Render(m, mapping, query0, expanded, animatedOnly, isLoading) ==
  /\ context' = Some(PrepareContext(m, mapping, query0, expanded, animatedOnly, isLoading))
  /\ manifest' = HeldAfterRender(m, mapping, query0, expanded, animatedOnly)
  /\ curTimeout' = FALSE

(***************************************************************************)
(* The first render: _prepareContext awaits #loadManifest.                 *)
(***************************************************************************)
\* MapBrowser.open(): new MapBrowserApp().render(true); no manifest is
\* held, so #loadManifest starts the manifest fetch.
Open ==
  /\ pc = "closed"
  /\ manifest = Null
  /\ loading' = TRUE
  /\ log' = Append(log, Call(0, "fetch", <<"manifest">>))
  /\ pc' = "fetchManifest"
  /\ UNCHANGED <<manifest, variantMapping, searchQuery, expandedLocation,
                 showAnimatedOnly, context, searchTimeouts, curTimeout, task,
                 tasksStarted, loadResult, lastEvent>>

\* An end of the load whose render still reports loading.
FinishLoadStillLoading(m, mapping, newLog, result) ==
  /\ variantMapping' = mapping
  /\ loading' = FALSE
  /\ log' = newLog
  /\ loadResult' = result
  /\ lastEvent' = <<"load">>
  /\ pc' = "rendered"
  /\ Render(m, mapping, searchQuery, expandedLocation, showAnimatedOnly, TRUE)
  /\ UNCHANGED <<searchQuery, expandedLocation, showAnimatedOnly, searchTimeouts,
                 task, tasksStarted>>

\* The end of #loadManifest (loading = false) and the rest of the render.
FinishLoad(m, mapping, newLog, result) ==
  /\ variantMapping' = mapping
  /\ loading' = FALSE
  /\ log' = newLog
  /\ loadResult' = result
  /\ lastEvent' = <<"load">>
  /\ pc' = "rendered"
  /\ Render(m, mapping, searchQuery, expandedLocation, showAnimatedOnly, FALSE)
  /\ UNCHANGED <<searchQuery, expandedLocation, showAnimatedOnly, searchTimeouts,
                 task, tasksStarted>>

\* A catch block that reports the failure and leaves the manifest as it was.
LoadFailedKeepsManifest(cause) ==
  FinishLoad(manifest, variantMapping,
             Append(log, Notify(0, "error", LoadErrorText)),
             [loadResult EXCEPT !.manifest = cause])

\* The catch block of #loadManifest.
LoadFailed(cause) ==
  FinishLoad(Some(EmptyManifest), variantMapping,
             Append(log, Notify(0, "error", LoadErrorText)),
             [loadResult EXCEPT !.manifest = cause])

\* fetch rejects, or !response.ok throws
ManifestFetchFails ==
  /\ pc = "fetchManifest"
  /\ \E cause \in {"rejected", "not ok"} : LoadFailed(cause)

ManifestFetchOk ==
  /\ pc = "fetchManifest"
  /\ pc' = "parseManifest"
  /\ UNCHANGED <<manifest, variantMapping, searchQuery, expandedLocation, loading,
                 showAnimatedOnly, context, searchTimeouts, curTimeout, task,
                 tasksStarted, log, loadResult, lastEvent>>

\* response.json() rejects
ManifestParseFails ==
  /\ pc = "parseManifest"
  /\ LoadFailed("bad json")

\* this.#manifest = await response.json(); then the mapping fetch starts
ManifestParseOk ==
  /\ pc = "parseManifest"
  /\ \E m \in Manifests :
       /\ manifest' = Some(m)
       /\ loadResult' = [loadResult EXCEPT !.manifest = "ok", !.doc = Some(m)]
  /\ log' = Append(log, Call(0, "fetch", <<"mapping">>))
  /\ pc' = "fetchMapping"
  /\ UNCHANGED <<variantMapping, searchQuery, expandedLocation, loading,
                 showAnimatedOnly, context, searchTimeouts, curTimeout, task,
                 tasksStarted, lastEvent>>

\* the mapping fetch rejects (inner catch) or answers non-2xx (skipped)
MappingFetchFails ==
  /\ pc = "fetchMapping"
  /\ \E cause \in {"rejected", "not ok"} :
       FinishLoad(manifest, variantMapping, log, [loadResult EXCEPT !.mapping = cause])

MappingFetchOk ==
  /\ pc = "fetchMapping"
  /\ pc' = "parseMapping"
  /\ UNCHANGED <<manifest, variantMapping, searchQuery, expandedLocation, loading,
                 showAnimatedOnly, context, searchTimeouts, curTimeout, task,
                 tasksStarted, log, loadResult, lastEvent>>

\* A mapping parse failure that reaches the outer catch block.
MappingParseFailsAsLoadFailure ==
  /\ pc = "parseMapping"
  /\ FinishLoad(Some(EmptyManifest), variantMapping,
                Append(log, Notify(0, "error", LoadErrorText)),
                [loadResult EXCEPT !.mapping = "bad json"])

\* mappingResponse.json() rejects: the inner catch
MappingParseFails ==
  /\ pc = "parseMapping"
  /\ FinishLoad(manifest, variantMapping, log, [loadResult EXCEPT !.mapping = "bad json"])

\* this.#variantMapping = await mappingResponse.json()
MappingParseOk ==
  /\ pc = "parseMapping"
  /\ \E mapping \in VariantMappings : FinishLoad(manifest, Some(mapping), log, [loadResult EXCEPT !.mapping = "ok"])

(***************************************************************************)
(* The handlers _onRender binds.  Each one that changes view state ends    *)
(* with this.render(); the manifest is held by then, so _prepareContext    *)
(* runs without suspending.                                                *)
(***************************************************************************)
Rendered == pc = "rendered"

\* A clearTimeout that cancels nothing.
ClearTimeoutNoop(timers, held) == timers

\* clearTimeout(searchTimeout): cancels the timer of this closure, if it
\* is still pending; timers armed by earlier closures are out of reach.
ClearTimeout(timers, held) ==
  IF held THEN SubSeq(timers, 1, Len(timers) - 1) ELSE timers

\* An input event on the rendered search field whose value is now v:
\* the closure's timer is cleared and a new 500 ms timer is armed.  The
\* callback reads ev.target.value when it fires; the field of a closure
\* receives no input after its last input event, so that is v.  The
\* history keeps the value of the timer this event cancelled, if any.
SearchInput(v) ==
  /\ Rendered
  /\ Len(ClearTimeout(searchTimeouts, curTimeout)) < MaxTimers
  /\ searchTimeouts' = Append(ClearTimeout(searchTimeouts, curTimeout), v)
  /\ curTimeout' = TRUE
  /\ lastEvent' = <<"input", v,
                     IF curTimeout THEN Some(searchTimeouts[Len(searchTimeouts)])
                     ELSE Null>>
  /\ UNCHANGED <<manifest, variantMapping, searchQuery, expandedLocation, loading,
                 showAnimatedOnly, pc, context, task, tasksStarted, log, loadResult>>

\* A recomputation that collapses the expanded location.
SearchRecomputeCollapses(v) ==
  /\ searchQuery' = v
  /\ expandedLocation' = NoId
  /\ Render(manifest, variantMapping, v, NoId, showAnimatedOnly, loading)
  /\ UNCHANGED <<variantMapping, loading,
                 showAnimatedOnly, pc, task, tasksStarted, log, loadResult>>

\* The timer callback: this.#searchQuery = ev.target.value; this.render()
SearchRecomputeStep(v) ==
  /\ searchQuery' = v
  /\ Render(manifest, variantMapping, v, expandedLocation, showAnimatedOnly, loading)
  /\ UNCHANGED <<variantMapping, expandedLocation, loading,
                 showAnimatedOnly, pc, task, tasksStarted, log, loadResult>>

\* The callback, recorded in the event history with, when the event
\* before was an input event, what that event cancelled, and with whether
\* a location was expanded but not displayed before the callback ran.
SearchRecompute(v) ==
  /\ SearchRecomputeStep(v)
  /\ lastEvent' = <<"search", v,
                     IF lastEvent[1] = "input" THEN Some(lastEvent[3]) ELSE Null,
                     /\ expandedLocation # NoId
                     /\ \A i \in 1..Len(Get(context).locations) :
                           Get(context).locations[i].id # expandedLocation>>

\* The oldest pending timer fires (all timers run 500 ms, so they fire in
\* the order they were armed).
SearchTimeoutFires ==
  /\ Rendered
  /\ searchTimeouts # <<>>
  /\ SearchRecompute(Head(searchTimeouts))
  /\ searchTimeouts' = Tail(searchTimeouts)

\* click on [data-action="toggle-animated"]
ToggleAnimatedStep ==
  /\ Rendered
  /\ showAnimatedOnly' = ~showAnimatedOnly
  /\ Render(manifest, variantMapping, searchQuery, expandedLocation,
            ~showAnimatedOnly, loading)
  /\ UNCHANGED <<variantMapping, searchQuery, expandedLocation, loading,
                 pc, searchTimeouts, task, tasksStarted, log, loadResult>>

\* The click, recorded in the event history.
ToggleAnimated ==
  /\ ToggleAnimatedStep
  /\ lastEvent' = <<"toggle-animated">>

\* A click that expands the clicked location whatever was expanded.
AlwaysExpanded(expanded, locationId) == locationId

\* wasExpanded ? null : locationId
ToggledExpansion(expanded, locationId) ==
  IF expanded = locationId THEN NoId ELSE locationId

\* The ids of the location cards of the latest render.
DisplayedIds ==
  IF context = Null THEN {}
  ELSE {Get(context).locations[i].id : i \in 1..Len(Get(context).locations)}

\* click on a [data-action="toggle-location"] card
ToggleLocationStep(locationId) ==
  /\ Rendered
  /\ locationId \in DisplayedIds
  /\ expandedLocation' = ToggledExpansion(expandedLocation, locationId)
  /\ Render(manifest, variantMapping, searchQuery,
            ToggledExpansion(expandedLocation, locationId), showAnimatedOnly, loading)
  /\ UNCHANGED <<variantMapping, searchQuery, loading, showAnimatedOnly,
                 pc, searchTimeouts, task, tasksStarted, log, loadResult>>

\* The click, recorded in the event history: the clicked id, what was
\* expanded before the click and, when the event before was a click on the
\* same card, what was expanded before that one.
ToggleLocation(locationId) ==
  /\ ToggleLocationStep(locationId)
  /\ lastEvent' = <<"toggle-location", locationId, expandedLocation,
                     IF lastEvent[1] = "toggle-location" /\ lastEvent[2] = locationId
                     THEN Some(lastEvent[3]) ELSE Null>>

(***************************************************************************)
(* Scene creation: paths, URLs and names.                                  *)
(***************************************************************************)
\* What a template literal prints for an optional value.
UndefinedStr == <<"u", "n", "d", "e", "f", "i", "n", "e", "d">>
TemplateStr(o) == IF o = Null THEN UndefinedStr ELSE Get(o)

\* encodeURIComponent on the characters of the model: letters and digits
\* stay, a space, a slash and a number sign are escaped.
EncodeChar(c) ==
  CASE c = " " -> <<"%", "2", "0">>
    [] c = "/" -> <<"%", "2", "F">>
    [] c = "#" -> <<"%", "2", "3">>
    [] OTHER -> <<c>>

RECURSIVE encodeURIComponent(_)
encodeURIComponent(s) ==
  IF s = <<>> THEN <<>> ELSE EncodeChar(Head(s)) \o encodeURIComponent(Tail(s))

\* String.prototype.split('/')
RECURSIVE SplitSlash(_, _, _)
SplitSlash(s, cur, acc) ==
  IF s = <<>> THEN Append(acc, cur)
  ELSE IF Head(s) = "/" THEN SplitSlash(Tail(s), <<>>, Append(acc, cur))
       ELSE SplitSlash(Tail(s), Append(cur, Head(s)), acc)

\* Array.prototype.join('/')
RECURSIVE JoinSlash(_)
JoinSlash(parts) ==
  IF parts = <<>> THEN <<>>
  ELSE IF Len(parts) = 1 THEN parts[1]
       ELSE parts[1] \o <<"/">> \o JoinSlash(Tail(parts))

\* The whole path encoded as one component, its slashes included.
EncodePathWhole(filePath) == encodeURIComponent(filePath)

\* filePath.split('/').map(p => encodeURIComponent(p)).join('/')
EncodePath(filePath) ==
  LET parts == SplitSlash(filePath, <<>>, <<>>)
  IN  JoinSlash([i \in 1..Len(parts) |-> encodeURIComponent(parts[i])])

\* folder_name/filename, or folder_name/Maps/filename
CzepekuPath(location, file) ==
  IF location.files_in_root
  THEN location.folder_name \o <<"/">> \o file.filename
  ELSE location.folder_name \o <<"/", "M", "a", "p", "s", "/">> \o file.filename

\* beneos_path/flavor.name/filename
BeneosPath(location, flavor, file) ==
  TemplateStr(location.beneos_path) \o <<"/">> \o flavor.name \o <<"/">> \o file.filename

\* !worker_base_url && !onedrive_api_base
OriginConfigured(m) ==
  m # Null /\ (Get(m).worker_base_url # Null \/ Get(m).onedrive_api_base # Null)

\* A URL that takes the legacy origin whenever there is one.
MediaUrlLegacyFirst(m, encodedPath, file) ==
  IF m.onedrive_api_base = Null
  THEN TemplateStr(m.worker_base_url) \o <<"/">> \o encodedPath
  ELSE Get(m.onedrive_api_base) \o <<"/">> \o encodedPath
         \o <<":", "/", "c", "o", "n", "t", "e", "n", "t", "#">> \o file.filename

\* The media URL: the worker origin when there is one, else the legacy one.
MediaUrl(m, encodedPath, file) ==
  IF m.worker_base_url # Null
  THEN Get(m.worker_base_url) \o <<"/">> \o encodedPath
  ELSE TemplateStr(m.onedrive_api_base) \o <<"/">> \o encodedPath
         \o <<":", "/", "c", "o", "n", "t", "e", "n", "t", "#">> \o file.filename

\* The scene name of #createScene.
CzepekuSceneName(location, flavor, file) ==
  location.title
    \o (IF flavor.name # OriginalName THEN <<" ", "-", " ">> \o flavor.display_name ELSE <<>>)
    \o (IF file.sub_variant # Null /\ Get(file.sub_variant) # <<>>
        THEN <<" ", "(">> \o Get(file.sub_variant) \o <<")">> ELSE <<>>)

\* The scene name of #createBeneosScene.
BeneosSceneName(location, flavor, fileType) ==
  location.title \o <<" ", "-", " ">> \o flavor.display_name
    \o (IF fileType = "scenery" THEN <<" ", "(", "S", "c", "e", "n", "e", "r", "y", ")">> ELSE <<>>)

\* The scene name of MapBrowser.createSceneFromLocation.
ApiSceneName(location, flavor) ==
  location.title
    \o (IF flavor.name # OriginalName /\ flavor.display_name # <<>>
        THEN <<" ", "-", " ">> \o flavor.display_name ELSE <<>>)

\* files.find(f => f.animated) || files[0], files being non-empty
RECURSIVE FirstAnimated(_)
FirstAnimated(files) ==
  IF files = <<>> THEN Null
  ELSE IF Head(files).animated THEN Some(Head(files)) ELSE FirstAnimated(Tail(files))

PreferAnimated(files) ==
  IF FirstAnimated(files) # Null THEN FirstAnimated(files)
  ELSE IF files # <<>> THEN Some(files[1]) ELSE Null

\* A selection that falls back to the other list when the requested one
\* is missing or empty.
BeneosFilesEither(flavor, fileType) ==
  LET asked == IF fileType = "scenery" THEN flavor.scenery_files ELSE flavor.battlemap_files
      other == IF fileType = "scenery" THEN flavor.battlemap_files ELSE flavor.scenery_files
  IN  IF asked = Null \/ Get(asked) = <<>> THEN other ELSE asked

\* fileType === 'scenery' ? flavor.scenery_files : flavor.battlemap_files
BeneosFiles(flavor, fileType) ==
  IF fileType = "scenery" THEN flavor.scenery_files ELSE flavor.battlemap_files

\* manifest.locations.find(l => l.id === locationId)
RECURSIVE FindLocation(_, _)
FindLocation(locations, locationId) ==
  IF locations = <<>> THEN Null
  ELSE IF Head(locations).id = locationId THEN Some(Head(locations))
       ELSE FindLocation(Tail(locations), locationId)

CzepekuFallbackWidth == 4096
CzepekuFallbackHeight == 4096
BeneosFallbackWidth == 3840
BeneosFallbackHeight == 2160
ApiWidth == 4096
ApiHeight == 4096

SceneData(name, width, height, src, gridType, source, location, flavor, file, fileType) ==
  [name |-> name, width |-> width, height |-> height, src |-> src,
   gridType |-> gridType, source |-> source, locationId |-> location.id,
   flavorName |-> flavor.name, filename |-> file.filename, fileType |-> fileType]

(***************************************************************************)
(* Scene creation: the calls.  One call runs at a time in the model; the   *)
(* calls share no state but the manifest, which they only read.            *)
(***************************************************************************)
ProbeSizes == {<<1920, 1080>>}

ConfigureText == "MAP_BROWSER.ConfigureOneDrive"
LoadingText == "MAP_BROWSER.LoadingImage"
CreatedText == "MAP_BROWSER.SceneCreated"
ApiCreatedText == "Scene created"
FailedText == "Failed to create scene"

IdleTask ==
  [pc |-> "idle", id |-> 0, kind |-> "none", catalog |-> Null, request |-> <<>>,
   path |-> <<>>, name |-> <<>>, data |-> Null, calls |-> <<>>]

TaskFree == task.pc \in {"idle", "returned"} /\ tasksStarted < MaxTasks

NewTaskId == tasksStarted + 1

\* The call makes the external calls cs, in order.
Calls(t, cs) == [t EXCEPT !.calls = t.calls \o cs]

\* The call has returned to its caller.
Return(t) == [t EXCEPT !.pc = "returned"]

\* A call that has just started: request holds the arguments it was given.
StartedTask(kind, catalog, request) ==
  [pc |-> "started", id |-> NewTaskId, kind |-> kind, catalog |-> catalog,
   request |-> request, path |-> <<>>, name |-> <<>>, data |-> Null, calls |-> <<>>]

\* #createScene(location, flavor, file)
createScene(location, flavor, file) ==
  LET t == StartedTask("czepeku", manifest, <<location.id, flavor.name, file.filename>>)
  IN  IF ~OriginConfigured(manifest)
      THEN task' = Return(Calls(t, <<Notify(t.id, "error", <<ConfigureText>>)>>))
      ELSE LET encodedPath == EncodePath(CzepekuPath(location, file))
               imageUrl == MediaUrl(Get(manifest), encodedPath, file)
               sceneName == CzepekuSceneName(location, flavor, file)
           IN  task' = [Calls(t, <<Notify(t.id, "info", <<LoadingText>>),
                                   Call(t.id, "probe", <<imageUrl, file.animated>>)>>)
                        EXCEPT
                     !.pc = "probe",
                     !.path = encodedPath,
                     !.name = sceneName,
                     !.data = Some(SceneData(sceneName, CzepekuFallbackWidth,
                                             CzepekuFallbackHeight, imageUrl, 1, "czepeku",
                                             location, flavor, file, Null))]

\* click on a [data-action="create-scene"] button of a displayed card
CreateSceneClick(locationId, flavorIndex, fileIndex) ==
  /\ Rendered
  /\ TaskFree
  /\ locationId \in DisplayedIds
  /\ LET location == FindLocation(Get(manifest).locations, locationId)
     IN  /\ location # Null
         /\ flavorIndex \in 1..Len(Get(location).flavors)
         /\ LET flavor == Get(location).flavors[flavorIndex]
            IN  /\ flavor.files # Null
                /\ fileIndex \in 1..Len(Get(flavor.files))
                /\ createScene(Get(location), flavor, Get(flavor.files)[fileIndex])
  /\ tasksStarted' = NewTaskId
  /\ UNCHANGED <<manifest, variantMapping, searchQuery, expandedLocation, loading,
                 showAnimatedOnly, pc, context, searchTimeouts, curTimeout, log,
                 loadResult, lastEvent>>

\* #createBeneosScene(location, flavor, fileType)
createBeneosScene(location, flavor, fileType) ==
  LET t == StartedTask("beneos", manifest, <<location.id, flavor.name, fileType>>)
      files == BeneosFiles(flavor, fileType)
  IN  IF ~OriginConfigured(manifest)
      THEN task' = Return(Calls(t, <<Notify(t.id, "error", <<ConfigureText>>)>>))
      ELSE IF files = Null \/ Get(files) = <<>>
      THEN task' = Return(Calls(t, <<Notify(t.id, "warn", <<"No files found", fileType>>)>>))
      ELSE LET file == Get(PreferAnimated(Get(files)))
               encodedPath == EncodePath(BeneosPath(location, flavor, file))
               mediaUrl == MediaUrl(Get(manifest), encodedPath, file)
               sceneName == BeneosSceneName(location, flavor, fileType)
           IN  task' = [Calls(t, <<Notify(t.id, "info", <<LoadingText>>),
                                   Call(t.id, "probe", <<mediaUrl, file.animated>>)>>)
                        EXCEPT
                     !.pc = "probe",
                     !.path = encodedPath,
                     !.name = sceneName,
                     !.data = Some(SceneData(sceneName, BeneosFallbackWidth,
                                             BeneosFallbackHeight, mediaUrl,
                                             IF fileType = "battlemap" THEN 1 ELSE 0,
                                             "beneos", location, flavor, file,
                                             Some(fileType)))]

\* click on a [data-action="create-beneos-scene"] button of a displayed card
CreateBeneosSceneClick(locationId, flavorIndex, fileType) ==
  /\ Rendered
  /\ TaskFree
  /\ locationId \in DisplayedIds
  /\ LET location == FindLocation(Get(manifest).locations, locationId)
     IN  /\ location # Null
         /\ flavorIndex \in 1..Len(Get(location).flavors)
         /\ LET flavor == Get(location).flavors[flavorIndex]
            IN  /\ flavor.scenery_files # Null \/ flavor.battlemap_files # Null
                /\ createBeneosScene(Get(location), flavor, fileType)
  /\ tasksStarted' = NewTaskId
  /\ UNCHANGED <<manifest, variantMapping, searchQuery, expandedLocation, loading,
                 showAnimatedOnly, pc, context, searchTimeouts, curTimeout, log,
                 loadResult, lastEvent>>

TaskStep ==
  UNCHANGED <<manifest, variantMapping, searchQuery, expandedLocation, loading,
              showAnimatedOnly, pc, context, searchTimeouts, curTimeout,
              tasksStarted, log, loadResult, lastEvent>>

\* const scene = await Scene.create(sceneData)
CallSceneCreate(t) ==
  task' = [Calls(t, <<Call(t.id, "Scene.create", <<Get(t.data)>>)>>) EXCEPT !.pc = "create"]

\* The probe resolves with the natural size of the media.
ProbeLoads ==
  /\ task.pc = "probe"
  /\ \E size \in ProbeSizes :
       CallSceneCreate([task EXCEPT !.data = Some([Get(task.data) EXCEPT
                                                     !.width = size[1],
                                                     !.height = size[2]])])
  /\ TaskStep

\* A probe failure that ends the call after the warning.
ProbeFailsAborts ==
  /\ task.pc = "probe"
  /\ task' = Return(Calls(task, <<Notify(task.id, "warn",
                                         <<"Could not determine media size", task.kind>>)>>))
  /\ TaskStep

\* The probe rejects (onerror, or the 30 s timeout): the fallback size stays.
ProbeFails ==
  /\ task.pc = "probe"
  /\ CallSceneCreate(Calls(task, <<Notify(task.id, "warn",
                                           <<"Could not determine media size", task.kind>>)>>))
  /\ TaskStep

\* Scene.create returns a scene: the success notification and the prompt
SceneCreateReturns ==
  /\ task.pc = "create"
  /\ task' = [Calls(task, <<Notify(task.id, "info",
                                   <<IF task.kind = "api" THEN ApiCreatedText
                                     ELSE CreatedText, task.name>>),
                            Call(task.id, "Dialog.confirm", <<>>)>>)
              EXCEPT !.pc = "confirm"]
  /\ TaskStep

\* A failure noticed only after the success notification and the prompt.
SceneCreateFailsLate ==
  /\ task.pc = "create"
  /\ \E reason \in {"rejected", "returned undefined"} :
       task' = Return(Calls(task, <<Notify(task.id, "info", <<CreatedText, task.name>>),
                                    Call(task.id, "Dialog.confirm", <<>>),
                                    Notify(task.id, "error", <<FailedText, reason>>)>>))
  /\ TaskStep

\* Scene.create rejects or returns nothing: the catch block
SceneCreateFails ==
  /\ task.pc = "create"
  /\ \E reason \in {"rejected", "returned undefined"} :
       task' = Return(Calls(task, <<Notify(task.id, "error", <<FailedText, reason>>)>>))
  /\ TaskStep

\* The prompt answers yes: scene.activate() is called
ConfirmYes ==
  /\ task.pc = "confirm"
  /\ task' = [Calls(task, <<Call(task.id, "scene.activate", <<>>)>>)
              EXCEPT !.pc = "activate"]
  /\ TaskStep

\* A "no" answer that activates the scene all the same.
ConfirmNoActivates ==
  /\ task.pc = "confirm"
  /\ task' = Return(Calls(task, <<Call(task.id, "scene.activate", <<>>)>>))
  /\ TaskStep

\* The prompt answers no (or is closed)
ConfirmNo ==
  /\ task.pc = "confirm"
  /\ task' = Return(task)
  /\ TaskStep

\* Dialog.confirm rejects: the catch block
ConfirmRejects ==
  /\ task.pc = "confirm"
  /\ task' = Return(Calls(task, <<Notify(task.id, "error",
                                         <<FailedText, "confirm rejected">>)>>))
  /\ TaskStep

ActivateReturns ==
  /\ task.pc = "activate"
  /\ task' = Return(task)
  /\ TaskStep

\* A rejection of scene.activate() that leaves the call by an exception.
ActivateFailsPropagates ==
  /\ task.pc = "activate"
  /\ task' = [task EXCEPT !.pc = "threw"]
  /\ TaskStep

\* scene.activate() rejects: the catch block
ActivateFails ==
  /\ task.pc = "activate"
  /\ task' = Return(Calls(task, <<Notify(task.id, "error",
                                         <<FailedText, "activate rejected">>)>>))
  /\ TaskStep

(***************************************************************************)
(* MapBrowser.createSceneFromLocation(locationId): it fetches the manifest *)
(* itself and never reads the window's state.                              *)
(***************************************************************************)
ApiLocationIds == {"pt", "ps", "zz"}

\* The call starts: fetch of the manifest
ApiCreateScene(locationId) ==
  /\ TaskFree
  /\ task' = [Calls(StartedTask("api", Null, <<locationId>>), <<Call(NewTaskId, "fetch", <<"manifest">>)>>)
              EXCEPT !.pc = "apiFetch", !.name = locationId]
  /\ tasksStarted' = NewTaskId
  /\ UNCHANGED <<manifest, variantMapping, searchQuery, expandedLocation, loading,
                 showAnimatedOnly, pc, context, searchTimeouts, curTimeout, log,
                 loadResult, lastEvent>>

\* The call returns null after an error notification.
ApiFail(text) ==
  task' = Return(Calls(task, <<Notify(task.id, "error", text)>>))

\* fetch rejects: the catch block
ApiFetchRejects ==
  /\ task.pc = "apiFetch"
  /\ ApiFail(<<FailedText, "fetch rejected">>)
  /\ TaskStep

\* !manifestResponse.ok
ApiFetchNotOk ==
  /\ task.pc = "apiFetch"
  /\ ApiFail(<<"Could not load map manifest">>)
  /\ TaskStep

ApiFetchOk ==
  /\ task.pc = "apiFetch"
  /\ task' = [task EXCEPT !.pc = "apiParse"]
  /\ TaskStep

\* manifestResponse.json() rejects: the catch block
ApiParseFails ==
  /\ task.pc = "apiParse"
  /\ ApiFail(<<FailedText, "bad json">>)
  /\ TaskStep

\* The body of the call from the parsed manifest m to Scene.create.
createSceneFromManifest(m, locationId) ==
  LET found == FindLocation(m.locations, locationId)
  IN  IF found = Null THEN ApiFail(<<"Location not found", locationId>>)
      ELSE
      LET location == Get(found)
      IN  IF location.flavors = <<>>
          THEN ApiFail(<<"No map variants found for", location.title>>)
          ELSE
          LET flavor == location.flavors[1]
              isBeneos == flavor.scenery_files # Null \/ flavor.battlemap_files # Null
              files == IF isBeneos
                       THEN (IF flavor.battlemap_files # Null THEN Get(flavor.battlemap_files)
                             ELSE Get(flavor.scenery_files))
                       ELSE (IF flavor.files # Null THEN Get(flavor.files) ELSE <<>>)
              chosen == PreferAnimated(files)
          IN  IF chosen = Null THEN ApiFail(<<"No files found for", location.title>>)
              ELSE
              LET file == Get(chosen)
                  filePath == IF isBeneos THEN BeneosPath(location, flavor, file)
                              ELSE CzepekuPath(location, file)
                  encodedPath == EncodePath(filePath)
                  mediaUrl == MediaUrl(m, encodedPath, file)
                  sceneName == ApiSceneName(location, flavor)
                  t == [Calls(task, <<Notify(task.id, "info",
                                             <<"Creating scene", sceneName>>)>>)
                        EXCEPT
                          !.catalog = Some(m),
                          !.path = encodedPath,
                          !.name = sceneName,
                          !.data = Some(SceneData(sceneName, ApiWidth, ApiHeight, mediaUrl,
                                                  1,
                                                  IF isBeneos THEN "beneos" ELSE "czepeku",
                                                  location, flavor, file, Null))]
              IN  CallSceneCreate(t)

ApiParseOk ==
  /\ task.pc = "apiParse"
  /\ \E m \in Manifests : createSceneFromManifest(m, task.name)
  /\ TaskStep

(***************************************************************************)
(* The specifications.                                                     *)
(***************************************************************************)
NoLoadResult == [manifest |-> "none", mapping |-> "none", doc |-> Null]

Init ==
  /\ manifest = Null
  /\ variantMapping = Null
  /\ searchQuery = <<>>
  /\ expandedLocation = NoId
  /\ loading = TRUE
  /\ showAnimatedOnly = FALSE
  /\ pc = "closed"
  /\ context = Null
  /\ searchTimeouts = <<>>
  /\ curTimeout = FALSE
  /\ task = IdleTask
  /\ tasksStarted = 0
  /\ log = <<>>
  /\ loadResult = NoLoadResult
  /\ lastEvent = <<"none">>

Next ==
  \/ Open
  \/ ManifestFetchFails
  \/ ManifestFetchOk
  \/ ManifestParseFails
  \/ ManifestParseOk
  \/ MappingFetchFails
  \/ MappingFetchOk
  \/ MappingParseFails
  \/ MappingParseOk
  \/ \E v \in InputValues : SearchInput(v)
  \/ SearchTimeoutFires
  \/ ToggleAnimated
  \/ \E id \in DisplayedIds : ToggleLocation(id)

Spec == Init /\ [][Next]_vars

\* The filter on its own: a held catalog, a query and a toggle setting
\* drawn from bounded sets, rendered, and re-rendered by the toggle.
InitFilter ==
  /\ manifest \in {Some(m) : m \in FilterManifests}
  /\ variantMapping = Null
  /\ searchQuery \in FilterQueries
  /\ expandedLocation = NoId
  /\ loading = FALSE
  /\ showAnimatedOnly \in BOOLEAN
  /\ pc = "rendered"
  /\ context = Some(PrepareContext(manifest, variantMapping, searchQuery,
                                    expandedLocation, showAnimatedOnly, loading))
  /\ searchTimeouts = <<>>
  /\ curTimeout = FALSE
  /\ task = IdleTask
  /\ tasksStarted = 0
  /\ log = <<Call(0, "fetch", <<"manifest">>), Call(0, "fetch", <<"mapping">>)>>
  /\ loadResult = [manifest |-> "ok", mapping |-> "not ok", doc |-> manifest]
  /\ lastEvent = <<"search", searchQuery, Null, FALSE>>

NextFilter == ToggleAnimated

SpecFilter == InitFilter /\ [][NextFilter]_vars

\* The handlers' effect on the view state without the debounce timers: the
\* timer callback with any value the user may have typed.
SceneQueries == {<<>>, <<"a">>}

SearchCallback ==
  /\ Rendered
  /\ \E v \in SceneQueries : SearchRecomputeStep(v)
  /\ UNCHANGED <<searchTimeouts, lastEvent>>

\* The two clicks; this specification keeps no history of the view events.
SceneToggleAnimated == ToggleAnimatedStep /\ UNCHANGED lastEvent
SceneToggleLocation(locationId) == ToggleLocationStep(locationId) /\ UNCHANGED lastEvent

LoadStep ==
  \/ Open
  \/ ManifestFetchFails
  \/ ManifestFetchOk
  \/ ManifestParseFails
  \/ ManifestParseOk
  \/ MappingFetchFails
  \/ MappingFetchOk
  \/ MappingParseFails
  \/ MappingParseOk

SceneStep ==
  \/ \E id \in DisplayedIds, k \in 1..2, i \in 1..2 : CreateSceneClick(id, k, i)
  \/ \E id \in DisplayedIds, k \in 1..2, fileType \in {"scenery", "battlemap"} :
       CreateBeneosSceneClick(id, k, fileType)
  \/ \E id \in ApiLocationIds : ApiCreateScene(id)
  \/ ProbeLoads
  \/ ProbeFails
  \/ SceneCreateReturns
  \/ SceneCreateFails
  \/ ConfirmYes
  \/ ConfirmNo
  \/ ConfirmRejects
  \/ ActivateReturns
  \/ ActivateFails
  \/ ApiFetchRejects
  \/ ApiFetchNotOk
  \/ ApiFetchOk
  \/ ApiParseFails
  \/ ApiParseOk

\* The window and the scene-creation calls.
NextScene ==
  \/ LoadStep
  \/ SearchCallback
  \/ SceneToggleAnimated
  \/ \E id \in DisplayedIds : SceneToggleLocation(id)
  \/ SceneStep

SpecScene == Init /\ [][NextScene]_vars

\* An external call awaited by the latest scene-creation call settles.
TaskSettles ==
  \/ ProbeLoads
  \/ ProbeFails
  \/ SceneCreateReturns
  \/ SceneCreateFails
  \/ ConfirmYes
  \/ ConfirmNo
  \/ ConfirmRejects
  \/ ActivateReturns
  \/ ActivateFails
  \/ ApiFetchRejects
  \/ ApiFetchNotOk
  \/ ApiFetchOk
  \/ ApiParseFails
  \/ ApiParseOk

\* The window and the scene-creation calls, where every external call a
\* scene-creation call awaits settles: the probe by its load or error event
\* or by its 30 s timer, the others by assumption.
SpecSceneSettling == SpecScene /\ WF_vars(TaskSettles)

(***************************************************************************)
(* The properties of the query filter, stated on the latest render: its    *)
(* context against the held manifest, the query and the animated toggle.   *)
(***************************************************************************)
\* q occurs in s as a contiguous run of characters
IsSubstring(q, s) ==
  \E i \in 0..Len(s) :
     /\ i + Len(q) <= Len(s)
     /\ \A k \in 1..Len(q) : s[i + k] = q[k]

\* The whitespace-separated terms of q: its maximal runs of non-whitespace.
TermsOf(q) ==
  {SubSeq(q, i, j) : <<i, j>> \in
     {<<i, j>> \in (1..Len(q)) \X (1..Len(q)) :
        /\ i <= j
        /\ \A k \in i..j : q[k] # " "
        /\ (i = 1 \/ q[i - 1] = " ")
        /\ (j = Len(q) \/ q[j + 1] = " ")}}

HasTermIn(tags, q) ==
  \E n \in 1..Len(tags) : \E t \in TermsOf(q) : IsSubstring(t, tags[n])

\* The four ways a location can match the lowercased query q.
ByNameMatch(loc, q) ==
  IsSubstring(q, toLowerCase(loc.title)) \/ IsSubstring(q, toLowerCase(loc.folder_name))
ByTagMatch(loc, q) == HasTermIn(loc.smart_tags, q)
ByFlavorMatch(loc, q) ==
  \E k \in 1..Len(loc.flavors) :
     \/ IsSubstring(q, toLowerCase(loc.flavors[k].display_name))
     \/ HasTermIn(loc.flavors[k].smart_tags, q)
ByTextMatch(loc, q) ==
  /\ Len(loc.searchable_text) = 1
  /\ IsSubstring(q, toLowerCase(loc.searchable_text[1]))

\* The locations of the held catalog that pass the animated-only restriction.
Candidates ==
  {l \in {Get(manifest).locations[i] : i \in 1..Len(Get(manifest).locations)} :
     showAnimatedOnly => l.has_animated}

LoweredQuery == toLowerCase(searchQuery)

\* The render on display was computed from the state now held.
RenderIsCurrent ==
  /\ pc = "rendered"
  /\ context # Null
  /\ manifest # Null
  /\ Get(context).searchQuery = searchQuery
  /\ Get(context).showAnimatedOnly = showAnimatedOnly

\* C1: for a query with at least one non-whitespace term, a location that
\* passes the animated-only restriction is displayed if and only if it
\* matches by name (whole query), by one of its tags (some term), by a
\* flavor (display name with the whole query, or a flavor tag with some
\* term) or by its searchable text (present, whole query); a location
\* without searchable text that misses the first three is not displayed.
C1_QueryMatch ==
  (RenderIsCurrent /\ TermsOf(LoweredQuery) # {}) =>
     \A l \in Candidates :
        l.id \in DisplayedIds <=>
          \/ ByNameMatch(l, LoweredQuery)
          \/ ByTagMatch(l, LoweredQuery)
          \/ ByFlavorMatch(l, LoweredQuery)
          \/ ByTextMatch(l, LoweredQuery)

\* A two-term query for which one location is displayed by a tag alone,
\* one by its searchable text alone, and one without searchable text is
\* left out.
C1_Witness ==
  /\ RenderIsCurrent
  /\ Cardinality(TermsOf(LoweredQuery)) >= 2
  /\ \E l \in Candidates :
        /\ l.id \in DisplayedIds
        /\ ByTagMatch(l, LoweredQuery)
        /\ ~ByNameMatch(l, LoweredQuery)
        /\ ~ByFlavorMatch(l, LoweredQuery)
        /\ ~ByTextMatch(l, LoweredQuery)
  /\ \E l \in Candidates :
        /\ l.id \in DisplayedIds
        /\ ByTextMatch(l, LoweredQuery)
        /\ ~ByNameMatch(l, LoweredQuery)
        /\ ~ByTagMatch(l, LoweredQuery)
        /\ ~ByFlavorMatch(l, LoweredQuery)
  /\ \E l \in Candidates :
        /\ l.searchable_text = Null
        /\ l.id \notin DisplayedIds

\* The ids of the displayed locations, in display order, and the ids of
\* the locations that pass the animated-only restriction, in catalog order.
DisplayedIdSeq ==
  [i \in 1..Len(Get(context).locations) |-> Get(context).locations[i].id]
CandidateIdSeq ==
  LET kept == SelectSeq(Get(manifest).locations,
                        LAMBDA l : showAnimatedOnly => l.has_animated)
  IN  [i \in 1..Len(kept) |-> kept[i].id]

\* C2: with an empty or whitespace-only query the displayed locations are
\* exactly the animated-only restriction of the catalog (the whole catalog
\* with the toggle off), in catalog order.
C2_BlankQueryPassesThrough ==
  (RenderIsCurrent /\ TermsOf(searchQuery) = {}) => DisplayedIdSeq = CandidateIdSeq

\* The position of a location id in the held catalog.
CatalogPosition(id) ==
  CHOOSE p \in 1..Len(Get(manifest).locations) : Get(manifest).locations[p].id = id

\* C10: the displayed locations are a subsequence of the catalog: each is
\* a catalog location, and any two of them stand in catalog order (so none
\* appears twice).
C10_StableOrder ==
  RenderIsCurrent =>
     /\ \A i \in 1..Len(DisplayedIdSeq) :
           \E p \in 1..Len(Get(manifest).locations) :
              Get(manifest).locations[p].id = DisplayedIdSeq[i]
     /\ \A i, j \in 1..Len(DisplayedIdSeq) :
           i < j => CatalogPosition(DisplayedIdSeq[i]) < CatalogPosition(DisplayedIdSeq[j])

\* A query keeps the first and the last location of a three-location
\* catalog and drops the one between them, the last one matching by name
\* and the first one not.
C10_Witness ==
  /\ RenderIsCurrent
  /\ searchQuery # <<>>
  /\ Len(Get(manifest).locations) = 3
  /\ DisplayedIdSeq = <<Get(manifest).locations[1].id, Get(manifest).locations[3].id>>
  /\ ~ByNameMatch(Get(manifest).locations[1], LoweredQuery)
  /\ ByNameMatch(Get(manifest).locations[3], LoweredQuery)

(***************************************************************************)
(* The properties of the load.                                             *)
(***************************************************************************)
LoadFailures == {"rejected", "not ok", "bad json"}

\* The error notifications of the window's own load.
ErrorNotifications ==
  {i \in 1..Len(log) : log[i].op = "notify" /\ log[i].args[1] = "error"}

\* C3: when the manifest fetch rejects, answers non-2xx or does not parse,
\* #loadManifest returns to the render (nothing is thrown past it), the
\* held manifest is the empty one (no locations, all totals 0), loading is
\* false and exactly one error notification was issued.
C3_LoadFailureEmptyStore ==
  loadResult.manifest \in LoadFailures =>
     /\ pc = "rendered"
     /\ context # Null
     /\ manifest # Null
     /\ Get(manifest).locations = <<>>
     /\ Get(manifest).total_locations = 0
     /\ Get(manifest).total_flavors = 0
     /\ Get(manifest).total_files = 0
     /\ loading = FALSE
     /\ Cardinality(ErrorNotifications) = 1

\* The load has just ended on a non-2xx manifest response.
C3_Witness ==
  /\ loadResult.manifest = "not ok"
  /\ lastEvent = <<"load">>
  /\ Get(context).resultCount = 0

\* The files a displayed flavor shows, whichever lists it has.
FileLists(flavor) == {flavor.files, flavor.scenery_files, flavor.battlemap_files}

\* Some file of the latest render carries a variantThumb field.
SomeVariantThumbShown ==
  \E i \in 1..Len(Get(context).locations) :
     \E k \in 1..Len(Get(context).locations[i].flavors) :
        \E list \in FileLists(Get(context).locations[i].flavors[k]) :
           /\ list # Null
           /\ \E n \in 1..Len(Get(list)) : "variantThumb" \in DOMAIN Get(list)[n]

\* C8: when the manifest loads and the variant-mapping fetch rejects,
\* answers non-2xx or does not parse, the manifest held is the document
\* that was loaded, no mapping is held, no error notification was issued,
\* and every render, also one with an expanded location, shows no file
\* with a variant thumbnail.
C8_MappingFailureIsSilent ==
  (loadResult.manifest = "ok" /\ loadResult.mapping \in LoadFailures) =>
     /\ pc = "rendered"
     /\ manifest = loadResult.doc
     /\ variantMapping = Null
     /\ ErrorNotifications = {}
     /\ context # Null
     /\ ~SomeVariantThumbShown

\* The mapping did not parse and a displayed location has been expanded.
C8_Witness ==
  /\ loadResult.manifest = "ok"
  /\ loadResult.mapping = "bad json"
  /\ lastEvent[1] = "toggle-location"
  /\ expandedLocation \in DisplayedIds

(***************************************************************************)
(* The properties of the view state.                                       *)
(***************************************************************************)
\* The displayed locations of the latest render.
Displayed == Get(context).locations

\* C4: at most one displayed location has expanded = true; and right after
\* a click on location B while another location A was expanded, B is
\* displayed with expanded = true and A, where displayed, with expanded =
\* false.
C4_ExclusiveExpansion ==
  context # Null =>
     /\ Cardinality({i \in 1..Len(Displayed) : Displayed[i].expanded}) <= 1
     /\ ( /\ lastEvent[1] = "toggle-location"
          /\ lastEvent[3] # NoId
          /\ lastEvent[3] # lastEvent[2] ) =>
           /\ \E i \in 1..Len(Displayed) : Displayed[i].id = lastEvent[2]
           /\ \A i \in 1..Len(Displayed) :
                 /\ Displayed[i].id = lastEvent[2] => Displayed[i].expanded
                 /\ Displayed[i].id = lastEvent[3] => ~Displayed[i].expanded

\* Location B has just been clicked while A, also displayed, was expanded.
C4_Witness ==
  /\ context # Null
  /\ lastEvent[1] = "toggle-location"
  /\ lastEvent[3] # NoId
  /\ lastEvent[3] # lastEvent[2]
  /\ {lastEvent[2], lastEvent[3]} \subseteq DisplayedIds

\* C5: at every moment at most one debounced recomputation is pending (an
\* input event cancels the one scheduled before it, also across a
\* re-render).
C5_OnePendingRecomputation == Len(searchTimeouts) <= 1

\* The catalog location a displayed location was made from.
CatalogLocation(id) == Get(manifest).locations[CatalogPosition(id)]

\* The variantThumb a file should carry once a mapping is held: the path
\* of the image mapped to its key, or null for an unmapped key.
MappedThumb(locationId, flavorName, filename) ==
  LET key == <<locationId, flavorName, filename>>
  IN  IF key \in DOMAIN Get(variantMapping)
      THEN Some("modules/map-browser/data/variant-thumbs/"
                \o Get(variantMapping)[key] \o ".webp")
      ELSE Null

\* A displayed file list is the catalog's, each file with its variantThumb.
ListAugmented(locationId, flavorName, shown, catalog) ==
  IF catalog = Null THEN shown = Null
  ELSE /\ shown # Null
       /\ Len(Get(shown)) = Len(Get(catalog))
       /\ \A n \in 1..Len(Get(catalog)) :
             /\ DOMAIN Get(shown)[n] = DOMAIN Get(catalog)[n] \cup {"variantThumb"}
             /\ \A f \in DOMAIN Get(catalog)[n] : Get(shown)[n][f] = Get(catalog)[n][f]
             /\ Get(shown)[n].variantThumb =
                  MappedThumb(locationId, flavorName, Get(catalog)[n].filename)

\* C7: in every context a displayed location other than the expanded one
\* carries the catalog's flavors unchanged, and with a mapping held every
\* file in files, scenery_files and battlemap_files of every flavor of the
\* expanded location carries the variantThumb of its key, null when the
\* key is unmapped.
C7_VariantThumbsOnlyWhenExpanded ==
  (context # Null /\ manifest # Null) =>
     \A i \in 1..Len(Displayed) :
        LET shown == Displayed[i]
            loc == CatalogLocation(shown.id)
        IN  /\ shown.id # expandedLocation => shown.flavors = loc.flavors
            /\ (shown.id = expandedLocation /\ variantMapping # Null) =>
                  /\ Len(shown.flavors) = Len(loc.flavors)
                  /\ \A k \in 1..Len(loc.flavors) :
                        /\ ListAugmented(loc.id, loc.flavors[k].name,
                                         shown.flavors[k].files, loc.flavors[k].files)
                        /\ ListAugmented(loc.id, loc.flavors[k].name,
                                         shown.flavors[k].scenery_files,
                                         loc.flavors[k].scenery_files)
                        /\ ListAugmented(loc.id, loc.flavors[k].name,
                                         shown.flavors[k].battlemap_files,
                                         loc.flavors[k].battlemap_files)

\* With a mapping held, the expanded location shows a file with a mapped
\* thumbnail and a file with none, next to a location that is not expanded.
C7_Witness ==
  /\ context # Null
  /\ variantMapping # Null
  /\ \E i, j \in 1..Len(Displayed) :
        /\ Displayed[i].id = expandedLocation
        /\ Displayed[j].id # expandedLocation
        /\ \E k \in 1..Len(Displayed[i].flavors) :
              LET files == Displayed[i].flavors[k].files
              IN  /\ files # Null
                  /\ \E n, o \in 1..Len(Get(files)) :
                        /\ Get(files)[n].variantThumb # Null
                        /\ Get(files)[o].variantThumb = Null

(***************************************************************************)
(* The properties of scene creation and of the held catalog.               *)
(***************************************************************************)
\* The latest scene-creation call has made an external call of this kind.
TaskCalled(op) == \E i \in 1..Len(task.calls) : task.calls[i].op = op

\* C6: a scene-creation call (#createScene, #createBeneosScene or
\* MapBrowser.createSceneFromLocation) on a catalog with neither
\* worker_base_url nor onedrive_api_base starts no media probe and never
\* calls Scene.create.
C6_NoOriginAborts ==
  (task.catalog # Null /\ ~OriginConfigured(task.catalog)) =>
     /\ ~TaskCalled("probe")
     /\ ~TaskCalled("Scene.create")

\* The fields of a catalog location and of a catalog file.
LocationFields ==
  {"id", "title", "folder_name", "has_animated", "files_in_root", "beneos_path",
   "flavors", "smart_tags", "searchable_text", "thumbnail"}
FileFields == {"filename", "animated", "sub_variant"}

\* No derived field on the held catalog's locations, flavors and files.
CatalogClean ==
  manifest # Null =>
     \A i \in 1..Len(Get(manifest).locations) :
        LET loc == Get(manifest).locations[i]
        IN  /\ DOMAIN loc = LocationFields
            /\ loc.thumbnail \in BOOLEAN
            /\ \A k \in 1..Len(loc.flavors) :
                  \A list \in FileLists(loc.flavors[k]) :
                     list # Null =>
                        \A n \in 1..Len(Get(list)) : DOMAIN Get(list)[n] = FileFields

\* C9: once the load has completed no step (search, animated toggle,
\* location toggle, render, scene creation) changes the held manifest or
\* the held variant mapping, and the held catalog never carries the
\* derived fields expanded, tagBadges, variantThumb or a thumbnail URL.
C9_CatalogReadOnly ==
  /\ []CatalogClean
  /\ [][pc = "rendered" => (manifest' = manifest /\ variantMapping' = variantMapping)]_vars

\* After the load: a query is set, a location with variant thumbnails is
\* expanded and a scene-creation call has reached Scene.create.
C9_Witness ==
  /\ pc = "rendered"
  /\ variantMapping # Null
  /\ searchQuery # <<>>
  /\ showAnimatedOnly
  /\ expandedLocation \in DisplayedIds
  /\ SomeVariantThumbShown
  /\ TaskCalled("Scene.create")

\* C11: while the animated-only toggle is on, no location with
\* has_animated = false is displayed, whatever the query, also when the
\* query matches that location.
C11_AnimatedOnlyExcludes ==
  (pc = "rendered" /\ context # Null /\ showAnimatedOnly) =>
     \A i \in 1..Len(Displayed) : Displayed[i].has_animated

\* The toggle has just been switched on under a query that matches a
\* location without animated files by name; an animated one is displayed.
C11_Witness ==
  /\ RenderIsCurrent
  /\ showAnimatedOnly
  /\ lastEvent = <<"toggle-animated">>
  /\ TermsOf(LoweredQuery) # {}
  /\ Displayed # <<>>
  /\ \E i \in 1..Len(Get(manifest).locations) :
        /\ ~Get(manifest).locations[i].has_animated
        /\ ByNameMatch(Get(manifest).locations[i], LoweredQuery)
        /\ Get(manifest).locations[i].id \notin DisplayedIds

(***************************************************************************)
(* The properties of a scene-creation call, stated on the latest call.     *)
(***************************************************************************)
\* The location and the flavor a window call was made for.
RequestLocation ==
  LET locs == Get(task.catalog).locations
  IN  locs[CHOOSE i \in 1..Len(locs) : locs[i].id = task.request[1]]
RequestFlavor ==
  LET fs == RequestLocation.flavors
  IN  fs[CHOOSE k \in 1..Len(fs) : fs[k].name = task.request[2]]

\* The list of the requested file type, as the catalog holds it.
RequestedList ==
  IF task.request[3] = "scenery" THEN RequestFlavor.scenery_files
  ELSE RequestFlavor.battlemap_files

\* The first animated file of a non-empty list, its first file without one.
ExpectedFile(list) ==
  IF \E i \in 1..Len(list) : list[i].animated
  THEN list[CHOOSE i \in 1..Len(list) :
              list[i].animated /\ \A j \in 1..(i - 1) : ~list[j].animated]
  ELSE list[1]

\* A call of #createBeneosScene on a catalog with an origin.
BeneosCall ==
  /\ task.kind = "beneos"
  /\ task.catalog # Null
  /\ OriginConfigured(task.catalog)

\* A call of MapBrowser.createSceneFromLocation that found a location whose
\* first flavor is of the alternate convention, and the list it reads: it
\* is given no file type and takes battlemap_files when present, else
\* scenery_files.
ApiFlavor == RequestLocation.flavors[1]
ApiBeneosCall ==
  /\ task.kind = "api"
  /\ task.catalog # Null
  /\ (ApiFlavor.scenery_files # Null \/ ApiFlavor.battlemap_files # Null)
ApiList ==
  IF ApiFlavor.battlemap_files # Null THEN ApiFlavor.battlemap_files
  ELSE ApiFlavor.scenery_files

\* C12: a request for a file type whose list is missing or empty ends with
\* one warning, no probe and no Scene.create, and no file of the other
\* list is used; a request for a non-empty list uses that list's first
\* animated file, or its first file when none is animated (so does the
\* public call, on the list it reads).
C12_RequestedListOnly ==
  /\ BeneosCall =>
        IF RequestedList = Null \/ Get(RequestedList) = <<>>
        THEN /\ task.pc = "returned"
             /\ task.data = Null
             /\ Len(task.calls) = 1
             /\ task.calls[1].op = "notify"
             /\ task.calls[1].args[1] = "warn"
        ELSE /\ task.data # Null
             /\ Get(task.data).filename = ExpectedFile(Get(RequestedList)).filename
             /\ TaskCalled("probe")
  /\ (ApiBeneosCall /\ task.data # Null) =>
        Get(task.data).filename = ExpectedFile(Get(ApiList)).filename

\* A request for the battlemap of a flavor that has scenery files only.
C12_Witness ==
  /\ BeneosCall
  /\ task.request[3] = "battlemap"
  /\ RequestFlavor.battlemap_files = Null
  /\ RequestFlavor.scenery_files # Null
  /\ Get(RequestFlavor.scenery_files) # <<>>
  /\ task.pc = "returned"

\* The positions of the latest call's external calls of one kind, and of
\* its notifications of one level.
CallsOf(op) == {i \in 1..Len(task.calls) : task.calls[i].op = op}
NotificationsOf(level) ==
  {i \in 1..Len(task.calls) :
     task.calls[i].op = "notify" /\ task.calls[i].args[1] = level}

\* The scene data Scene.create was called with.
CreatedData == task.calls[CHOOSE i \in CallsOf("Scene.create") : TRUE].args[1]

\* A window call whose media probe has ended.
ProbeEnded ==
  /\ task.kind \in {"czepeku", "beneos"}
  /\ TaskCalled("probe")
  /\ task.pc # "probe"

\* C13: when the probe fails, #createScene and #createBeneosScene warn once
\* and call Scene.create exactly once with the fallback size (4096x4096,
\* 3840x2160 for the alternate convention); when it succeeds, Scene.create
\* gets the probed width and height.
C13_ProbeFallback ==
  ProbeEnded =>
     /\ Cardinality(CallsOf("Scene.create")) = 1
     /\ Cardinality(NotificationsOf("warn")) <= 1
     /\ IF NotificationsOf("warn") # {}
        THEN <<CreatedData.width, CreatedData.height>> =
                IF task.kind = "czepeku" THEN <<4096, 4096>> ELSE <<3840, 2160>>
        ELSE <<CreatedData.width, CreatedData.height>> \in ProbeSizes

\* The probe of an alternate-convention call failed and Scene.create was
\* called.
C13_Witness ==
  /\ ProbeEnded
  /\ task.kind = "beneos"
  /\ NotificationsOf("warn") # {}
  /\ TaskCalled("Scene.create")
  /\ CreatedData.width = 3840

\* The step in which a pending Scene.create ends the call: it rejected or
\* returned no scene (a returned scene leads to the prompt instead).
SceneCreateFailed == task.pc = "create" /\ task'.pc = "returned"

\* C14: when Scene.create rejects or returns no scene the call issues one
\* error notification that carries the reason and nothing else: no success
\* notification, no prompt, no activation; it is the call's only error
\* notification, and manifest, mapping, query, expansion and toggles stay
\* as they were.
C14_CreateFailure ==
  [][SceneCreateFailed =>
       LET n == Len(task.calls)
           last == task'.calls[n + 1]
       IN  /\ Len(task'.calls) = n + 1
           /\ SubSeq(task'.calls, 1, n) = task.calls
           /\ last.op = "notify"
           /\ last.args[1] = "error"
           /\ last.args[2][1] = "Failed to create scene"
           /\ last.args[2][2] \in {"rejected", "returned undefined"}
           /\ Cardinality({i \in 1..(n + 1) :
                             /\ task'.calls[i].op = "notify"
                             /\ task'.calls[i].args[1] = "error"}) = 1
           /\ \A i \in 1..(n + 1) :
                 /\ task'.calls[i].op \notin {"Dialog.confirm", "scene.activate"}
                 /\ task'.calls[i].op = "Scene.create" =>
                       \A j \in (i + 1)..(n + 1) :
                          ~(task'.calls[j].op = "notify" /\ task'.calls[j].args[1] = "info")
           /\ UNCHANGED <<manifest, variantMapping, searchQuery, expandedLocation,
                          showAnimatedOnly, loading, context>>]_vars

\* Scene.create has returned no scene to a call made from the window with
\* a query set and a location expanded.
C14_Witness ==
  /\ task.pc = "returned"
  /\ task.kind \in {"czepeku", "beneos"}
  /\ TaskCalled("Scene.create")
  /\ \E i \in NotificationsOf("error") :
        task.calls[i].args[2][2] = "returned undefined"
  /\ searchQuery # <<>>
  /\ expandedLocation # NoId

\* The flavor the latest call creates a scene for, and the catalog file
\* whose name the scene data carries.
SceneFlavor == IF task.kind = "api" THEN ApiFlavor ELSE RequestFlavor
SceneFile ==
  LET lists == {l \in FileLists(SceneFlavor) : l # Null}
      files == UNION {{Get(l)[n] : n \in 1..Len(Get(l))} : l \in lists}
  IN  CHOOSE f \in files : f.filename = Get(task.data).filename

\* The name rule: title, " - " display name unless the flavor is named
\* Original, " (" sub-variant ")" when the file has one, " (Scenery)" for
\* a scenery request of the alternate convention.
RuleSceneName ==
  RequestLocation.title
    \o (IF SceneFlavor.name = <<"O", "r", "i", "g", "i", "n", "a", "l">> THEN <<>>
        ELSE <<" ", "-", " ">> \o SceneFlavor.display_name)
    \o (IF SceneFile.sub_variant = <<>> THEN <<>>
        ELSE <<" ", "(">> \o SceneFile.sub_variant[1] \o <<")">>)
    \o (IF task.kind = "beneos" /\ task.request[3] = "scenery"
        THEN <<" ", "(", "S", "c", "e", "n", "e", "r", "y", ")">> ELSE <<>>)

\* C15: in every scene-creation path the scene data carries the name the
\* rule gives.
C15_SceneNameRule ==
  (task.catalog # Null /\ task.data # Null) => Get(task.data).name = RuleSceneName

\* A path segment percent-encoded on its own (a space becomes %20; the
\* letters of the catalogs stay).
RECURSIVE EncodedSegment(_)
EncodedSegment(seg) ==
  IF seg = <<>> THEN <<>>
  ELSE (IF seg[1] = " " THEN <<"%", "2", "0">> ELSE <<seg[1]>>)
       \o EncodedSegment(SubSeq(seg, 2, Len(seg)))

MapsSegment == <<"M", "a", "p", "s">>

\* The segments of the asset path of the latest call: folder, Maps unless
\* files_in_root, filename; beneos_path, flavor name, filename for a
\* flavor of the alternate convention.
IsAlternate ==
  SceneFlavor.scenery_files # Null \/ SceneFlavor.battlemap_files # Null
PathSegments ==
  IF IsAlternate
  THEN <<RequestLocation.beneos_path[1], SceneFlavor.name, SceneFile.filename>>
  ELSE <<RequestLocation.folder_name>>
       \o (IF RequestLocation.files_in_root THEN <<>> ELSE <<MapsSegment>>)
       \o <<SceneFile.filename>>

RECURSIVE SlashJoined(_)
SlashJoined(segs) ==
  IF Len(segs) = 1 THEN EncodedSegment(segs[1])
  ELSE EncodedSegment(segs[1]) \o <<"/">> \o SlashJoined(SubSeq(segs, 2, Len(segs)))

\* A call that has built its path.
PathBuilt == task.catalog # Null /\ task.data # Null

\* C16 (as amended): the asset path is the segments above, each
\* percent-encoded on its own and joined by unencoded "/" characters; a
\* folder name with a space is encoded like the file name (folder "b b",
\* file "a b", not in root: "b%20b/Maps/a%20b").
C16_PathSegments == PathBuilt => task.path = SlashJoined(PathSegments)

\* C16 as stated: the rule above, and for a default-convention file not in
\* the root the example's form of the result, with the folder name left as
\* it is and the file name encoded ("b b/Maps/a%20b").
C16_PathAsStated ==
  PathBuilt =>
     /\ task.path = SlashJoined(PathSegments)
     /\ (~IsAlternate /\ ~RequestLocation.files_in_root) =>
           task.path = RequestLocation.folder_name \o <<"/">> \o MapsSegment \o <<"/">>
                       \o EncodedSegment(SceneFile.filename)

\* A path built for a file with a space in its name, in the Maps folder
\* of a location with a space in its folder name.
C16_Witness ==
  /\ PathBuilt
  /\ task.kind = "czepeku"
  /\ ~RequestLocation.files_in_root
  /\ \E i \in 1..Len(RequestLocation.folder_name) : RequestLocation.folder_name[i] = " "
  /\ \E i \in 1..Len(SceneFile.filename) : SceneFile.filename[i] = " "

\* The origins of the catalog the latest call works on.
WorkerOrigin == Get(task.catalog).worker_base_url
LegacyOrigin == Get(task.catalog).onedrive_api_base

\* The URL rule: worker origin, "/", encoded path; without a worker origin
\* the legacy origin, "/", encoded path, ":/content#", the file name as it
\* is.
RuleMediaUrl ==
  IF WorkerOrigin # <<>>
  THEN WorkerOrigin[1] \o <<"/">> \o task.path
  ELSE LegacyOrigin[1] \o <<"/">> \o task.path
       \o <<":", "/", "c", "o", "n", "t", "e", "n", "t", "#">> \o SceneFile.filename

\* C17: in every scene-creation path on a catalog with an origin, the
\* media URL follows the rule (the worker origin wins when both are
\* configured), and the probe and Scene.create are given that same URL.
C17_MediaUrlRule ==
  (PathBuilt /\ (WorkerOrigin # <<>> \/ LegacyOrigin # <<>>)) =>
     /\ Get(task.data).src = RuleMediaUrl
     /\ \A i \in CallsOf("probe") : task.calls[i].args[1] = RuleMediaUrl
     /\ \A i \in CallsOf("Scene.create") : task.calls[i].args[1].src = RuleMediaUrl

\* With both origins configured, the probe has run and Scene.create has
\* been called for a file with a space in its name.
C17_Witness ==
  /\ PathBuilt
  /\ WorkerOrigin # <<>>
  /\ LegacyOrigin # <<>>
  /\ TaskCalled("probe")
  /\ TaskCalled("Scene.create")
  /\ \E i \in 1..Len(SceneFile.filename) : SceneFile.filename[i] = " "

\* The manifest fetches in flight: the one of the window's load and the one
\* of a call of MapBrowser.createSceneFromLocation.
FetchesInFlight ==
  (IF pc = "fetchManifest" THEN 1 ELSE 0) + (IF task.pc = "apiFetch" THEN 1 ELSE 0)

\* C18: at most one manifest fetch is in flight at any time, the fetches
\* of calls of MapBrowser.createSceneFromLocation included.
C18_SingleManifestFetch == FetchesInFlight <= 1

\* The latest event was the second of two consecutive clicks on the same
\* location card; ExpandedBefore is what was expanded before the first.
SecondClick == lastEvent[1] = "toggle-location" /\ lastEvent[4] # <<>>
ExpandedBefore == lastEvent[4][1]

\* C19 (as amended): two consecutive clicks on the same card end with no
\* location expanded when that location was not expanded before them (none
\* or another one was), and with that location expanded again when it was.
C19_DoubleToggle ==
  SecondClick =>
     IF ExpandedBefore = lastEvent[2]
     THEN expandedLocation = lastEvent[2]
     ELSE /\ expandedLocation = NoId
          /\ \A i \in 1..Len(Displayed) : ~Displayed[i].expanded

\* C19 as stated: two consecutive clicks on the same card end with no
\* location expanded, whatever was expanded before them.
C19_DoubleToggleAsStated ==
  SecondClick =>
     /\ expandedLocation = NoId
     /\ \A i \in 1..Len(Displayed) : ~Displayed[i].expanded

\* Two consecutive clicks on a card made while another location was
\* expanded have left none expanded.
C19_Witness ==
  /\ SecondClick
  /\ ExpandedBefore \notin {NoId, lastEvent[2]}
  /\ expandedLocation = NoId

\* The queries that differ from the one held at most in letter case.
SameButCase == {q \in FilterQueries : toLowerCase(q) = LoweredQuery}

\* Every smart tag of the catalog, of a location or of a flavor, is lowercase.
LowercaseTags ==
  \A i \in 1..Len(Get(manifest).locations) :
     LET loc == Get(manifest).locations[i]
     IN  /\ \A n \in 1..Len(loc.smart_tags) :
               toLowerCase(loc.smart_tags[n]) = loc.smart_tags[n]
         /\ \A k \in 1..Len(loc.flavors) :
               \A n \in 1..Len(loc.flavors[k].smart_tags) :
                  toLowerCase(loc.flavors[k].smart_tags[n]) = loc.flavors[k].smart_tags[n]

\* The ids _prepareContext displays for query q over the catalog and
\* toggle setting held, in display order.
IdSeqFor(q) ==
  LET shown == PrepareContext(manifest, variantMapping, q, expandedLocation,
                              showAnimatedOnly, loading).locations
  IN  [i \in 1..Len(shown) |-> shown[i].id]

\* C20: over a catalog whose smart tags are lowercase, every query that
\* differs from the one held only in letter case displays the same
\* sequence of locations as the one on display.
C20_CaseInsensitive ==
  (RenderIsCurrent /\ LowercaseTags) =>
     \A q \in SameButCase : IdSeqFor(q) = DisplayedIdSeq

\* A query with an uppercase letter, which has a differently-cased twin, is
\* on display with a location it matches by tag only and without some
\* candidate it does not match.
C20_Witness ==
  /\ RenderIsCurrent
  /\ LowercaseTags
  /\ searchQuery # LoweredQuery
  /\ SameButCase # {searchQuery}
  /\ \E i \in 1..Len(Displayed) :
        /\ ~ByNameMatch(Displayed[i], LoweredQuery)
        /\ ByTagMatch(Displayed[i], LoweredQuery)
  /\ \E l \in Candidates : l.id \notin DisplayedIds

\* The latest event was an input event on the rendered search field: a
\* burst is under way, and no render has happened since its first event.
InBurst == lastEvent[1] = "input"
LatestValue == lastEvent[2]
NewestTimer == searchTimeouts[Len(searchTimeouts)]
OlderTimers == SubSeq(searchTimeouts, 1, Len(searchTimeouts) - 1)

\* C21: a burst of input events on the rendered field with no render in
\* between has one pending recomputation, the newest, which carries the
\* field's latest value; a further event of the burst replaces it and
\* recomputes nothing; and a timer that fires is consumed and recomputes
\* once, assigning its value to the query and rendering with it.
C21_BurstCoalesces ==
  /\ [](InBurst => /\ curTimeout
                    /\ searchTimeouts # <<>>
                    /\ NewestTimer = LatestValue)
  /\ [][(InBurst /\ lastEvent'[1] = "input") =>
           /\ searchTimeouts' = Append(OlderTimers, lastEvent'[2])
           /\ searchQuery' = searchQuery
           /\ context' = context]_vars
  /\ [][(lastEvent'[1] = "search" /\ searchTimeouts' # searchTimeouts) =>
           /\ searchTimeouts' = Tail(searchTimeouts)
           /\ searchQuery' = Head(searchTimeouts)
           /\ context' = Some(PrepareContext(manifest, variantMapping,
                                              Head(searchTimeouts), expandedLocation,
                                              showAnimatedOnly, loading))
           /\ (InBurst /\ Len(searchTimeouts) = 1) => searchQuery' = LatestValue]_vars

\* A burst of two events with different values has been followed by its
\* one recomputation, which applied the later value and left none pending.
C21_Witness ==
  /\ lastEvent[1] = "search"
  /\ lastEvent[3] # Null
  /\ Get(lastEvent[3]) # Null
  /\ Get(Get(lastEvent[3])) # lastEvent[2]
  /\ searchTimeouts = <<>>
  /\ searchQuery = lastEvent[2]
  /\ Get(context).searchQuery = searchQuery

\* The i-th external call of the latest scene-creation call is a
\* notification of the given level.
IsNotification(i, level) ==
  task.calls[i].op = "notify" /\ task.calls[i].args[1] = level

\* The step in which the prompt ends the call: it answered no, was closed
\* or rejected (a yes leads to scene.activate instead).
PromptDeclined == task.pc = "confirm" /\ task'.pc = "returned"

\* C22: the prompt is shown only right after the info notification that
\* follows a Scene.create call which returned a scene, scene.activate is
\* called only right after the prompt, and a call that ended on a failed
\* creation or on a prompt that did not answer yes has not activated and
\* makes no further external call.
C22_CallOrder ==
  /\ [](\A i \in 1..Len(task.calls) :
          /\ task.calls[i].op = "Dialog.confirm" =>
                /\ i >= 3
                /\ IsNotification(i - 1, "info")
                /\ task.calls[i - 2].op = "Scene.create"
          /\ task.calls[i].op = "scene.activate" =>
                /\ i >= 2
                /\ task.calls[i - 1].op = "Dialog.confirm")
  /\ [][(PromptDeclined \/ SceneCreateFailed) =>
           \A i \in 1..Len(task'.calls) : task'.calls[i].op # "scene.activate"]_vars
  /\ [][(task.pc = "returned" /\ task'.id = task.id) => task'.calls = task.calls]_vars
  /\ [][Cardinality({i \in 1..Len(task'.calls) : task'.calls[i].op = "scene.activate"})
           > Cardinality(CallsOf("scene.activate")) =>
           /\ task.pc = "confirm"
           /\ task.calls[Len(task.calls)].op = "Dialog.confirm"]_vars

\* A call has created a scene, announced it, prompted, activated on a yes
\* and returned.
C22_Witness ==
  /\ task.pc = "returned"
  /\ TaskCalled("scene.activate")
  /\ TaskCalled("Dialog.confirm")
  /\ NotificationsOf("error") = {}

\* The latest scene-creation call has started and not yet returned.
TaskPending == task.pc \notin {"idle", "returned"}

\* The call created a scene and announced it: an info notification
\* directly follows its Scene.create call.
AnnouncedScene ==
  \E i \in CallsOf("Scene.create") :
     i < Len(task.calls) /\ IsNotification(i + 1, "info")

\* C23: when every awaited external call settles, a started scene-creation
\* call returns to its caller, whatever the outcomes of the probe, of
\* Scene.create, of the prompt and of the activation; and a returned call
\* has announced a created scene or issued an error or warning
\* notification.
C23_CallReturns ==
  /\ TaskPending ~> (task.pc = "returned")
  /\ [](task.pc = "returned" =>
          \/ AnnouncedScene
          \/ NotificationsOf("error") # {}
          \/ NotificationsOf("warn") # {})

\* A call whose probe failed, whose scene was created and whose activation
\* was rejected has returned.
C23_Witness ==
  /\ task.pc = "returned"
  /\ NotificationsOf("warn") # {}
  /\ AnnouncedScene
  /\ TaskCalled("scene.activate")
  /\ NotificationsOf("error") # {}

\* The fetches the window's own load has started.
LoadFetches == {i \in 1..Len(log) : log[i].op = "fetch"}

\* C24: after a failed manifest load the empty catalog stays held (so no
\* later render finds the manifest missing), the load's single fetch and
\* single error notification stay the only ones, and nothing is displayed;
\* once the window is rendered no event starts a load or adds an external
\* call of the load; and every context has loading = false and
\* resultCount equal to the number of displayed locations.
C24_StickyFailure ==
  /\ [](loadResult.manifest \in LoadFailures =>
          /\ manifest = Some(EmptyManifest)
          /\ Cardinality(LoadFetches) = 1
          /\ Cardinality(ErrorNotifications) = 1
          /\ Displayed = <<>>)
  /\ [](context # Null =>
          /\ manifest # Null
          /\ Get(context).loading = FALSE
          /\ Get(context).resultCount = Len(Displayed))
  /\ [][pc = "rendered" =>
           /\ pc' = "rendered"
           /\ log' = log
           /\ loading' = FALSE]_vars

\* After a manifest that did not parse, the animated toggle was switched
\* on and a non-empty query was recomputed: nothing is displayed and the
\* load's error notification is still the only one.
C24_Witness ==
  /\ loadResult.manifest = "bad json"
  /\ lastEvent[1] = "search"
  /\ searchQuery # <<>>
  /\ showAnimatedOnly
  /\ Get(context).searchQuery = searchQuery
  /\ Get(context).resultCount = 0
  /\ Cardinality(ErrorNotifications) = 1

\* The steps of the three view events.
SearchStep == lastEvent'[1] = "search" /\ searchTimeouts' # searchTimeouts
AnimatedStep == lastEvent'[1] = "toggle-animated" /\ showAnimatedOnly' # showAnimatedOnly
LocationStep == lastEvent'[1] = "toggle-location" /\ expandedLocation' # expandedLocation

\* C25: a search recomputation and an animated-toggle click leave the
\* expanded location id as it was, a location click leaves the query and
\* the animated flag as they were, each of the three changes only in a
\* step of its own event, and every render marks as expanded exactly the
\* displayed location whose id is the expanded one.
C25_OwnEventOnly ==
  /\ [][(SearchStep \/ AnimatedStep) => expandedLocation' = expandedLocation]_vars
  /\ [][SearchStep => showAnimatedOnly' = showAnimatedOnly]_vars
  /\ [][AnimatedStep => searchQuery' = searchQuery]_vars
  /\ [][LocationStep => /\ searchQuery' = searchQuery
                        /\ showAnimatedOnly' = showAnimatedOnly]_vars
  /\ [][/\ searchQuery' # searchQuery => SearchStep
        /\ showAnimatedOnly' # showAnimatedOnly => AnimatedStep
        /\ expandedLocation' # expandedLocation => LocationStep]_vars
  /\ [](context # Null =>
          \A i \in 1..Len(Displayed) :
             Displayed[i].expanded <=> Displayed[i].id = expandedLocation)

\* A recomputation has brought back into the result the expanded location
\* that the query before had filtered out, and it is shown expanded.
C25_Witness ==
  /\ lastEvent[1] = "search"
  /\ lastEvent[4]
  /\ expandedLocation # NoId
  /\ \E i \in 1..Len(Displayed) :
        Displayed[i].id = expandedLocation /\ Displayed[i].expanded

====
